---- MODULE Spec2Model ----
(***************************************************************************)
(* A model of three parts of btor2mlir:                                    *)
(*   - the eBPF lifter (Deserialize::buildXDPFunction and what it calls),  *)
(*   - the ebpf ResolveMemory pass (replaceLoadWithLoadAddress),           *)
(*   - the Btor liveness pass (replaceWithWriteInPlace).                   *)
(* Each part has its own specification over a shared set of variables; a   *)
(* part that is not running keeps its variables at their idle values.      *)
(***************************************************************************)
EXTENDS Integers, Sequences, FiniteSets, TLC

\* ------------------------------------------------------------------ bounds
\* Longest instruction section the decoder hands to the lifter.
MaxLen == 3

\* Register count of the instruction set (Deserialize::m_ebpfRegisters).
m_ebpfRegisters == 11
\* REG::R0_RETURN_VALUE
R0_RETURN_VALUE == 0

Regs == 0 .. (m_ebpfRegisters - 1)

\* ------------------------------------------------------- instruction model
\* One record shape for every alternative of the Instruction variant; the
\* fields an alternative does not have are 0 / FALSE / "".
Ins(kind, op, dst, srcIsImm, src, is_load, width, off, target, cond) ==
  [kind |-> kind, op |-> op, dst |-> dst, srcIsImm |-> srcIsImm, src |-> src,
   is_load |-> is_load, width |-> width, off |-> off, target |-> target,
   cond |-> cond]

Bin(op, dst, srcIsImm, src) == Ins("Bin", op, dst, srcIsImm, src, FALSE, 0, 0, 0, FALSE)
Un(op, dst) == Ins("Un", op, dst, FALSE, 0, FALSE, 0, 0, 0, FALSE)
\* Mem: src is access.basereg, dst is the value register, off is access.offset
Mem(is_load, width, basereg, off, valreg) ==
  Ins("Mem", "", valreg, FALSE, basereg, is_load, width, off, 0, FALSE)
LoadMapFd(dst, mapfd) == Ins("LoadMapFd", "", dst, TRUE, mapfd, FALSE, 0, 0, 0, FALSE)
Jmp(target, cond) == Ins("Jmp", "", 0, FALSE, 0, FALSE, 0, 0, target, cond)
Plain(kind) == Ins(kind, "", 0, FALSE, 0, FALSE, 0, 0, 0, FALSE)

\* Kinds createMLIR has a branch for but does not lower.
NotLoweredPlain ==
  {"Call", "Callx", "Exit", "Packet", "Assume", "Atomic", "Assert",
   "IncrementLoopCounter"}

\* The instructions a section is drawn from: every kind of the variant, and
\* for a jump at offset `at` of a section of length n every forward target
\* inside the section (createJmpOp asserts target.from > cur_label.from and
\* reads prog.at(target.from)).
StraightIns ==
  { Bin("ADD", 1, TRUE, 5), Bin("MOV", 0, FALSE, 1), Un("NEG", 0),
    Mem(TRUE, 8, 1, 4, 0), Mem(FALSE, 4, 1, 5, 0), LoadMapFd(1, 7) }

OtherIns == { Plain(k) : k \in NotLoweredPlain \cup {"Undefined"} }

JmpIns(at, n) == { Jmp(t, c) : t \in (at + 1) .. (n - 1), c \in BOOLEAN }

\* prog[i + 1] is the instruction labelled i (label.from = i).
Sections ==
  UNION { { s \in [1 .. n -> StraightIns \cup OtherIns \cup
                             UNION { JmpIns(a, n) : a \in 0 .. (n - 1) }] :
              \A i \in 1 .. n : s[i].kind = "Jmp" => s[i].target > i - 1 }
          : n \in 1 .. MaxLen }

\* ------------------------------------------------------------ IR of lifter
NullValue == [def |-> "null", of |-> 0, idx |-> 0]
BlockArg(b, i) == [def |-> "arg", of |-> b, idx |-> i]
OpResult(id) == [def |-> "res", of |-> id, idx |-> 0]

\* An operation: name, operand values, successor block (0 when none),
\* constant attribute, and the offset of the instruction it was built for
\* (-1 for the operations the builder adds on its own).
MkOp(id, name, operands, dest, attr, ins) ==
  [id |-> id, name |-> name, operands |-> operands, dest |-> dest,
   attr |-> attr, ins |-> ins]

IsTerminator(op) == op.name \in {"std.br", "std.return"}

VARIABLES
  \* lifter
  prog,               \* m_sections.front()
  pc,                 \* position in buildXDPFunction / buildFunctionBody
  blocks,             \* the region: blocks[b] is the operation list of block b
  m_jumpBlocks,       \* offset -> block
  m_jmpTargets,
  m_startOfNextBlock,
  m_numBlocks,
  m_lastBlock,
  m_registers,
  insBlock,           \* m_builder's insertion block (always at its end)
  curBlock,
  cur_op,
  bi,                 \* position of the range-for over m_startOfNextBlock
  nextId,             \* operations created so far
  cerr,               \* what createMLIR wrote to std::cerr, one entry per call
  \* both passes
  ndebug,             \* the build: TRUE when assert() is compiled out
  \* ResolveMemory pass
  rFuncs,             \* the functions of the module's top block, in order
  rOps,               \* the operations of main's body, in block order
  rUses,              \* value -> its use list, first use first
  rPc,
  rIdx,               \* position of the walk over the operations
  rRun,               \* how many times the pass has been started
  rNext,              \* operations created so far
  rInput,             \* main's body as the first run received it
  rFirst,             \* main's body and its use lists as the first run left them
  rVisited,           \* the loads replaceLoadWithLoadAddress was called on
  \* Btor liveness pass
  lOps,               \* the operations of the function's last block, in order
  lUses,              \* value -> its use list, first use first
  lPc,
  lIdx,               \* position of the walk over the operations
  lNext,              \* operations created so far
  lInput,             \* the block as the pass received it
  lLog                \* one entry per write the walk has met

liftVars ==
  <<prog, pc, blocks, m_jumpBlocks, m_jmpTargets, m_startOfNextBlock,
    m_numBlocks, m_lastBlock, m_registers, insBlock, curBlock, cur_op, bi,
    nextId, cerr>>

resVars ==
  <<rFuncs, rOps, rUses, rPc, rIdx, rRun, rNext, rInput, rFirst, rVisited>>

liveVars == <<lOps, lUses, lPc, lIdx, lNext, lInput, lLog>>

vars == <<liftVars, ndebug, resVars, liveVars>>

\* What the lifter, the ResolveMemory pass and the liveness pass leave alone.
LiftOnly == UNCHANGED <<ndebug, resVars, liveVars>>
ResolveOnly == UNCHANGED <<liftVars, ndebug, liveVars>>
LiveOnly == UNCHANGED <<liftVars, ndebug, resVars>>

\* ----------------------------------------------------------------- lifter
\* The registers left bound to the parameters of the entry block.
ArgsOf_EntryBlock(b) == [i \in Regs |-> BlockArg(1, i)]

ArgsOf(b) == [i \in Regs |-> BlockArg(b, i)]
RegVector(regs) == [i \in 1 .. m_ebpfRegisters |-> regs[i - 1]]

MapPut(f, k, v) == [x \in (DOMAIN f) \cup {k} |-> IF x = k THEN v ELSE f[x]]

AppendOp(blks, b, op) == [blks EXCEPT ![b] = Append(@, op)]

LiftInit ==
  /\ prog \in Sections
  /\ pc = "start"
  /\ blocks = <<>>
  /\ m_jumpBlocks = <<>>
  /\ m_jmpTargets = {}
  /\ m_startOfNextBlock = <<>>
  /\ m_numBlocks = 0
  /\ m_lastBlock = 0
  /\ m_registers = [i \in Regs |-> NullValue]
  /\ insBlock = 0
  /\ curBlock = 0
  /\ cur_op = 0
  /\ bi = 1
  /\ nextId = 0
  /\ cerr = <<>>

\* buildXDPFunction up to the call of buildFunctionBody
buildXDPFunction ==
  /\ pc = "start"
  /\ blocks' = <<<<>>>>
  /\ m_jumpBlocks' = MapPut(m_jumpBlocks, 0, 1)
  /\ m_lastBlock' = 1
  /\ m_registers' = ArgsOf(1)
  /\ insBlock' = 1
  /\ pc' = "collect"
  /\ UNCHANGED <<prog, m_jmpTargets, m_startOfNextBlock, m_numBlocks, curBlock,
                 cur_op, bi, nextId, cerr>>
  /\ LiftOnly

\* Deserialize::updateBlocksMap (header): m_jumpBlocks[firstOp] = block
updateBlocksMap(st, block, firstOp) ==
  [st EXCEPT !.jumpBlocks = MapPut(@, firstOp, block)]

\* Deserialize::incrementBlocks (header): counts the boundary, records it as a
\* known target and as the start of a block, creates that block with one
\* parameter per register and enters it in the block index.
incrementBlocks(st, jmpTo) ==
  LET b == Len(st.blocks) + 1
      st1 == [st EXCEPT !.numBlocks = @ + 1,
                        !.targets = @ \cup {jmpTo},
                        !.sonb = Append(@, jmpTo),
                        !.blocks = Append(@, <<>>)]
  IN updateBlocksMap(st1, b, jmpTo)

\* The body of collectBlocks' loop for the instruction labelled `from`.
collectOne(st, ins, from) ==
  IF ins.kind = "Jmp"
  THEN LET jmpTo == ins.target
           st1 == IF jmpTo \notin st.targets THEN incrementBlocks(st, jmpTo) ELSE st
       IN IF ins.cond THEN incrementBlocks(st1, from + 1) ELSE st1
  ELSE st

RECURSIVE collectFrom(_, _, _)
collectFrom(st, p, i) ==
  IF i > Len(p) THEN st ELSE collectFrom(collectOne(st, p[i], i - 1), p, i + 1)

\* std::sort
RECURSIVE InsertSorted(_, _)
InsertSorted(s, x) ==
  IF s = <<>> THEN <<x>>
  ELSE IF x <= Head(s) THEN <<x>> \o s
  ELSE <<Head(s)>> \o InsertSorted(Tail(s), x)

RECURSIVE Sort(_)
Sort(s) == IF s = <<>> THEN <<>> ELSE InsertSorted(Sort(Tail(s)), Head(s))

\* buildFunctionBody, lines 262-265: collectBlocks and the loop's set-up
collectBlocks ==
  /\ pc = "collect"
  /\ LET st0 == [numBlocks |-> m_numBlocks, targets |-> m_jmpTargets,
                 sonb |-> m_startOfNextBlock, blocks |-> blocks,
                 jumpBlocks |-> m_jumpBlocks]
         st == collectFrom(st0, prog, 1)
     IN /\ m_numBlocks' = st.numBlocks
        /\ m_jmpTargets' = st.targets
        /\ m_startOfNextBlock' = Sort(st.sonb)
        /\ blocks' = st.blocks
        /\ m_jumpBlocks' = st.jumpBlocks
  /\ cur_op' = 0
  /\ bi' = 1
  /\ pc' = "loop"
  /\ UNCHANGED <<prog, m_lastBlock, m_registers, insBlock, curBlock, nextId, cerr>>
  /\ LiftOnly

\* buildFunctionBody, lines 266-275: the head of one iteration of the
\* boundary loop
blockBegin ==
  /\ pc = "loop"
  /\ bi <= Len(m_startOfNextBlock)
  /\ cur_op \in DOMAIN m_jumpBlocks
  /\ curBlock' = m_jumpBlocks[cur_op]
  /\ insBlock' = m_jumpBlocks[cur_op]
  /\ m_registers' = ArgsOf(m_jumpBlocks[cur_op])
  /\ pc' = "range"
  /\ UNCHANGED <<prog, blocks, m_jumpBlocks, m_jmpTargets, m_startOfNextBlock,
                 m_numBlocks, m_lastBlock, cur_op, bi, nextId, cerr>>
  /\ LiftOnly

\* The instruction range being translated ends before this offset.
Limit == IF pc = "range" THEN m_startOfNextBlock[bi] ELSE Len(prog)

Translating == pc \in {"range", "trail"} /\ cur_op < Limit

CurIns == prog[cur_op + 1]

\* What every call of createMLIR does besides its dispatch: line 203 prints
\* the label; the branch taken may print the kind's name after it.
Logged(msg) == cerr' = Append(cerr, [at |-> cur_op, msg |-> msg])

LiftFrame == UNCHANGED <<prog, pc, m_jumpBlocks, m_jmpTargets, m_startOfNextBlock,
                         m_numBlocks, m_lastBlock, insBlock, curBlock, bi>>

\* Builders of the header: each creates one operation at the insertion point
\* and hands back its result.
buildConstantOp(id, c, at) == MkOp(id, "ebpf.constant", <<>>, 0, c, at)
buildBinaryOp(id, name, lhs, rhs, at) == MkOp(id, name, <<lhs, rhs>>, 0, 0, at)
buildUnaryOp(id, name, rhs, at) == MkOp(id, name, <<rhs>>, 0, 0, at)
buildStoreOp(id, name, base, offset, val, at) ==
  MkOp(id, name, <<base, offset, val>>, 0, 0, at)

\* The switch of createBinaryOp
BinOpName(op) ==
  CASE op = "MOV" -> "ebpf.move"
    [] op = "MOVSX8" -> "ebpf.move8"
    [] op = "MOVSX16" -> "ebpf.move16"
    [] op = "MOVSX32" -> "ebpf.move32"
    [] op = "ADD" -> "ebpf.add"
    [] op = "SUB" -> "ebpf.sub"
    [] op = "MUL" -> "ebpf.mul"
    [] op = "UDIV" -> "ebpf.udiv"
    [] op = "SDIV" -> "ebpf.sdiv"
    [] op = "UMOD" -> "ebpf.umod"
    [] op = "SMOD" -> "ebpf.smod"
    [] op = "OR" -> "ebpf.or"
    [] op = "AND" -> "ebpf.and"
    [] op = "LSH" -> "ebpf.lsh"
    [] op = "RSH" -> "ebpf.rsh"
    [] op = "ARSH" -> "ebpf.shiftra"
    [] op = "XOR" -> "ebpf.xor"

\* The switch of createUnaryOp
UnOpName(op) ==
  CASE op = "BE16" -> "ebpf.be16"
    [] op = "BE32" -> "ebpf.be32"
    [] op = "BE64" -> "ebpf.be64"
    [] op = "LE16" -> "ebpf.le16"
    [] op = "LE32" -> "ebpf.le32"
    [] op = "LE64" -> "ebpf.le64"
    [] op = "SWAP16" -> "ebpf.swap16"
    [] op = "SWAP32" -> "ebpf.swap32"
    [] op = "SWAP64" -> "ebpf.swap64"
    [] op = "NEG" -> "ebpf.neg"

\* The switch of createMemOp
MemOpName(is_load, width) ==
  CASE width = 1 -> IF is_load THEN "ebpf.load8" ELSE "ebpf.store8"
    [] width = 2 -> IF is_load THEN "ebpf.load16" ELSE "ebpf.store16"
    [] width = 4 -> IF is_load THEN "ebpf.load32" ELSE "ebpf.store32"
    [] width = 8 -> IF is_load THEN "ebpf.load" ELSE "ebpf.store"

\* createBinaryOp without its holds_alternative<Imm> branch: the source is
\* always read from the register file.
BinaryOps_NoImmediate(bin, regs, id, at) ==
  <<buildBinaryOp(id + 1, BinOpName(bin.op), regs[bin.dst], regs[bin.src], at)>>

\* The operations createBinaryOp builds for `bin`, in order.
BinaryOps(bin, regs, id, at) ==
  LET lhs == regs[bin.dst]
  IN IF bin.srcIsImm
     THEN <<buildConstantOp(id + 1, bin.src, at),
            buildBinaryOp(id + 2, BinOpName(bin.op), lhs, OpResult(id + 1), at)>>
     ELSE <<buildBinaryOp(id + 1, BinOpName(bin.op), lhs, regs[bin.src], at)>>

createBinaryOp ==
  /\ Translating
  /\ CurIns.kind = "Bin"
  /\ LET ops == BinaryOps(CurIns, m_registers, nextId, cur_op)
         res == OpResult(ops[Len(ops)].id)
     IN /\ blocks' = [blocks EXCEPT ![insBlock] = @ \o ops]
        /\ nextId' = nextId + Len(ops)
        /\ m_registers' = [m_registers EXCEPT ![CurIns.dst] = res]
  /\ Logged("")
  /\ cur_op' = cur_op + 1
  /\ LiftFrame
  /\ LiftOnly

createUnaryOp ==
  /\ Translating
  /\ CurIns.kind = "Un"
  /\ LET op == buildUnaryOp(nextId + 1, UnOpName(CurIns.op),
                            m_registers[CurIns.dst], cur_op)
     IN /\ blocks' = AppendOp(blocks, insBlock, op)
        /\ m_registers' = [m_registers EXCEPT ![CurIns.dst] = OpResult(op.id)]
  /\ nextId' = nextId + 1
  /\ Logged("")
  /\ cur_op' = cur_op + 1
  /\ LiftFrame
  /\ LiftOnly

\* The operations createMemOp builds for `mem`, in order.
MemOps(mem, regs, id, at) ==
  LET offset == buildConstantOp(id + 1, mem.off, at)
      name == MemOpName(mem.is_load, mem.width)
  IN IF mem.is_load
     THEN <<offset, buildBinaryOp(id + 2, name, regs[mem.src], OpResult(id + 1), at)>>
     ELSE <<offset, buildStoreOp(id + 2, name, regs[mem.src], OpResult(id + 1),
                                 regs[mem.dst], at)>>

createMemOp ==
  /\ Translating
  /\ CurIns.kind = "Mem"
  /\ LET ops == MemOps(CurIns, m_registers, nextId, cur_op)
     IN /\ blocks' = [blocks EXCEPT ![insBlock] = @ \o ops]
        /\ nextId' = nextId + Len(ops)
        /\ m_registers' = IF CurIns.is_load
                          THEN [m_registers EXCEPT
                                  ![CurIns.dst] = OpResult(ops[Len(ops)].id)]
                          ELSE m_registers
  /\ Logged("")
  /\ cur_op' = cur_op + 1
  /\ LiftFrame
  /\ LiftOnly

\* The operations createLoadMapOp builds, in order.
LoadMapOps(loadMap, regs, id, at) ==
  <<buildConstantOp(id + 1, loadMap.src, at),
    buildBinaryOp(id + 2, "ebpf.loadmap", regs[loadMap.dst], OpResult(id + 1), at)>>

createLoadMapOp ==
  /\ Translating
  /\ CurIns.kind = "LoadMapFd"
  /\ LET ops == LoadMapOps(CurIns, m_registers, nextId, cur_op)
     IN /\ blocks' = [blocks EXCEPT ![insBlock] = @ \o ops]
        /\ nextId' = nextId + Len(ops)
        /\ m_registers' = [m_registers EXCEPT
                             ![CurIns.dst] = OpResult(ops[Len(ops)].id)]
  /\ Logged("")
  /\ cur_op' = cur_op + 1
  /\ LiftFrame
  /\ LiftOnly

\* Deserialize::buildJmpOp (header): an unconditional jump becomes a branch to
\* the block of its target carrying the register vector; a conditional jump
\* is not lowered.
buildJmpOp(id, jmp, regs, jumpBlocks, at) ==
  IF jmp.cond THEN <<>>
  ELSE <<MkOp(id + 1, "std.br", RegVector(regs), jumpBlocks[jmp.target], 0, at)>>

createJmpOp ==
  /\ Translating
  /\ CurIns.kind = "Jmp"
  /\ CurIns.target > cur_op                \* assert, line 23
  /\ CurIns.target < Len(prog)             \* prog.at, line 25
  /\ LET ops == buildJmpOp(nextId, CurIns, m_registers, m_jumpBlocks, cur_op)
     IN /\ blocks' = [blocks EXCEPT ![insBlock] = @ \o ops]
        /\ nextId' = nextId + Len(ops)
  /\ Logged("")
  /\ cur_op' = cur_op + 1
  /\ UNCHANGED m_registers
  /\ LiftFrame
  /\ LiftOnly

\* What createMLIR prints after the label for a kind it does not lower
\* (lines 222-255): the Exit branch prints nothing.
KindMessage(kind) == IF kind \in {"Exit", "Undefined"} THEN "" ELSE kind

createNotLowered ==
  /\ Translating
  /\ CurIns.kind \in NotLoweredPlain \cup {"Undefined"}
  /\ Logged(KindMessage(CurIns.kind))
  /\ cur_op' = cur_op + 1
  /\ UNCHANGED <<blocks, nextId, m_registers>>
  /\ LiftFrame
  /\ LiftOnly

createMLIR ==
  \/ createBinaryOp
  \/ createUnaryOp
  \/ createLoadMapOp
  \/ createJmpOp
  \/ createMemOp
  \/ createNotLowered

\* buildFunctionBody, lines 281-290: the end of one iteration of the loop
blockEnd ==
  /\ pc = "range"
  /\ cur_op >= m_startOfNextBlock[bi]
  /\ LET next == m_startOfNextBlock[bi]
         body == blocks[curBlock]
     IN IF body = <<>> \/ ~IsTerminator(body[Len(body)])
        THEN /\ next \in DOMAIN m_jumpBlocks
             /\ insBlock' = curBlock
             /\ blocks' = AppendOp(blocks, curBlock,
                            MkOp(nextId + 1, "std.br", RegVector(m_registers),
                                 m_jumpBlocks[next], 0, -1))
             /\ nextId' = nextId + 1
             /\ m_lastBlock' = m_jumpBlocks[next]
        ELSE UNCHANGED <<insBlock, blocks, nextId, m_lastBlock>>
  /\ bi' = bi + 1
  /\ pc' = "loop"
  /\ UNCHANGED <<prog, m_jumpBlocks, m_jmpTargets, m_startOfNextBlock, m_numBlocks,
                 m_registers, curBlock, cur_op, cerr>>
  /\ LiftOnly

\* buildFunctionBody, lines 291-297: after the loop, before the trailing
\* instructions
trailBegin ==
  /\ pc = "loop"
  /\ bi > Len(m_startOfNextBlock)
  /\ IF cur_op < Len(prog)
     THEN /\ insBlock' = m_lastBlock
          /\ m_registers' = ArgsOf(m_lastBlock)
     ELSE UNCHANGED <<insBlock, m_registers>>
  /\ pc' = "trail"
  /\ UNCHANGED <<prog, blocks, m_jumpBlocks, m_jmpTargets, m_startOfNextBlock,
                 m_numBlocks, m_lastBlock, curBlock, cur_op, bi, nextId, cerr>>
  /\ LiftOnly

\* buildXDPFunction, lines 355-361: the return in the final block
buildReturn ==
  /\ pc = "trail"
  /\ cur_op >= Len(prog)
  /\ insBlock' = m_lastBlock
  /\ m_registers' = [m_registers EXCEPT
                       ![R0_RETURN_VALUE] = BlockArg(m_lastBlock, 0)]
  /\ blocks' = AppendOp(blocks, m_lastBlock,
                 MkOp(nextId + 1, "std.return", <<BlockArg(m_lastBlock, 0)>>, 0, 0, -1))
  /\ nextId' = nextId + 1
  /\ pc' = "done"
  /\ UNCHANGED <<prog, m_jumpBlocks, m_jmpTargets, m_startOfNextBlock, m_numBlocks,
                 m_lastBlock, curBlock, cur_op, bi, cerr>>
  /\ LiftOnly

Next ==
  \/ buildXDPFunction
  \/ collectBlocks
  \/ blockBegin
  \/ createMLIR
  \/ blockEnd
  \/ trailBegin
  \/ buildReturn

ResIdle ==
  /\ rFuncs = <<>>
  /\ rOps = <<>>
  /\ rUses = <<>>
  /\ rPc = "off"
  /\ rIdx = 0
  /\ rRun = 0
  /\ rNext = 0
  /\ rInput = <<>>
  /\ rFirst = <<>>
  /\ rVisited = {}

LiveIdle ==
  /\ lOps = <<>>
  /\ lUses = <<>>
  /\ lPc = "off"
  /\ lIdx = 0
  /\ lNext = 0
  /\ lInput = <<>>
  /\ lLog = <<>>

\* The lifter runs alone: the passes are idle.
Init == LiftInit /\ ndebug = FALSE /\ ResIdle /\ LiveIdle

Spec == Init /\ [][Next]_vars

\* --------------------------------------------------------- lifter: claims
Range(s) == { s[i] : i \in DOMAIN s }

\* The block-start offsets, the entry included.
Boundaries == {0} \cup Range(m_startOfNextBlock)

\* The greatest boundary at or before offset i.
OwnerOffset(i) ==
  CHOOSE b \in Boundaries : b <= i /\ \A c \in Boundaries : c <= i => c <= b

\* buildFunctionBody has returned.
BodyBuilt == (pc = "trail" /\ cur_op >= Len(prog)) \/ pc = "done"

\* The operations of block b that were built for an instruction, constants
\* left out.
RECURSIVE SelectOps(_, _)
SelectOps(ops, keep) ==
  IF ops = <<>> THEN <<>>
  ELSE IF Head(ops).name \in keep
       THEN SelectOps(Tail(ops), keep)
       ELSE <<Head(ops)>> \o SelectOps(Tail(ops), keep)

InstructionOps(b) ==
  SelectOps(blocks[b], {"ebpf.constant", "std.return"})

Names(ops) == [i \in DOMAIN ops |-> ops[i].name]

Scenario == <<Bin("ADD", 1, TRUE, 5), Jmp(2, FALSE), Bin("MOV", 0, FALSE, 1)>>

\* C1: once the section is lifted, every operation built for an instruction
\* lies in the block that owns the greatest boundary at or before the
\* instruction's offset, the trailing instructions included; and the section
\* [ADD r1 5; Jump 2; MOV r0 r1] gives block A = {ADD, branch to B} and
\* block B = {MOV}.
C1_OpsInOwningBlock ==
  BodyBuilt =>
    /\ \A b \in DOMAIN blocks : \A k \in DOMAIN blocks[b] :
         blocks[b][k].ins >= 0 =>
           b = m_jumpBlocks[OwnerOffset(blocks[b][k].ins)]
    /\ prog = Scenario =>
         /\ Len(blocks) = 2
         /\ Names(InstructionOps(1)) = <<"ebpf.add", "std.br">>
         /\ InstructionOps(1)[2].dest = 2
         /\ Names(InstructionOps(2)) = <<"ebpf.move">>

\* C2: when buildXDPFunction is done, every block ends in a terminator and
\* holds no other terminator.
C2_OneTerminatorPerBlock ==
  pc = "done" =>
    \A b \in DOMAIN blocks :
      /\ blocks[b] # <<>>
      /\ IsTerminator(blocks[b][Len(blocks[b])])
      /\ \A k \in 1 .. (Len(blocks[b]) - 1) : ~IsTerminator(blocks[b][k])

\* C3: the block-start offsets collectBlocks computes hold no offset twice,
\* and there are as many blocks as distinct boundaries, the entry included.
C3_BoundariesDistinct ==
  pc \notin {"start", "collect"} =>
    /\ \A i, j \in DOMAIN m_startOfNextBlock :
         m_startOfNextBlock[i] = m_startOfNextBlock[j] => i = j
    /\ Len(blocks) = Cardinality(Boundaries)

IsNotLowered(ins) ==
  ins.kind \in NotLoweredPlain \/ (ins.kind = "Jmp" /\ ins.cond)

\* C4: translating an instruction of a kind that is not lowered writes a
\* diagnostic naming it, builds no operation, leaves the register file
\* alone and goes on to the next instruction.
C4_UnsupportedReported ==
  [][(Translating /\ IsNotLowered(CurIns)) =>
       /\ Len(cerr') = Len(cerr) + 1
       /\ cerr'[Len(cerr')].at = cur_op
       /\ cerr'[Len(cerr')].msg # ""
       /\ blocks' = blocks
       /\ m_registers' = m_registers
       /\ cur_op' = cur_op + 1]_vars

StraightLine(p) == \A i \in DOMAIN p : p[i] \in StraightIns

\* The instruction materialises a constant: an immediate source, a memory
\* offset or a map descriptor.
NeedsConstant(ins) ==
  \/ ins.kind = "Bin" /\ ins.srcIsImm
  \/ ins.kind = "Mem"
  \/ ins.kind = "LoadMapFd"

InsOpName(ins) ==
  CASE ins.kind = "Bin" -> BinOpName(ins.op)
    [] ins.kind = "Un" -> UnOpName(ins.op)
    [] ins.kind = "Mem" -> MemOpName(ins.is_load, ins.width)
    [] ins.kind = "LoadMapFd" -> "ebpf.loadmap"

\* The block a straight-line section should give: per instruction, in
\* order, its constant if it needs one and then its operation.
RECURSIVE ExpectedShape(_, _)
ExpectedShape(p, i) ==
  IF i > Len(p) THEN <<>>
  ELSE (IF NeedsConstant(p[i])
        THEN <<[name |-> "ebpf.constant", ins |-> i - 1]>>
        ELSE <<>>)
       \o <<[name |-> InsOpName(p[i]), ins |-> i - 1]>>
       \o ExpectedShape(p, i + 1)

Shape(ops) == [i \in DOMAIN ops |-> [name |-> ops[i].name, ins |-> ops[i].ins]]

\* C5 as stated: a straight-line section gives one block holding exactly
\* one operation per instruction, in order.
C5_OneOpPerInstruction ==
  (BodyBuilt /\ pc # "done" /\ StraightLine(prog)) =>
    /\ Len(blocks) = 1
    /\ Len(blocks[1]) = Len(prog)
    /\ \A i \in DOMAIN blocks[1] : blocks[1][i].ins = i - 1

\* C5 amended: a straight-line section gives one block holding, per
\* instruction and in order, one operation for the instruction, preceded by
\* the constant it materialises if it has an immediate source, a memory
\* offset or a map descriptor; buildXDPFunction then adds the return.
C5_OneOpPerInstructionModuloConstants ==
  (BodyBuilt /\ StraightLine(prog)) =>
    /\ Len(blocks) = 1
    /\ Shape(blocks[1]) =
         ExpectedShape(prog, 1) \o
           (IF pc = "done" THEN <<[name |-> "std.return", ins |-> -1]>> ELSE <<>>)
    /\ Len(InstructionOps(1)) = Len(prog)

C5_Witness ==
  /\ pc = "done"
  /\ Len(prog) = 3
  /\ prog[1] = Bin("ADD", 1, TRUE, 5)
  /\ prog[2] = Mem(TRUE, 8, 1, 4, 0)
  /\ prog[3] = Bin("MOV", 0, FALSE, 1)
  /\ Len(blocks[1]) = 6

\* ------------------------------------------------------ ResolveMemory pass
\* Longest body of main the pass is run on.
MaxOps == 3

LiftIdle ==
  /\ prog = <<>>
  /\ pc = "off"
  /\ blocks = <<>>
  /\ m_jumpBlocks = <<>>
  /\ m_jmpTargets = {}
  /\ m_startOfNextBlock = <<>>
  /\ m_numBlocks = 0
  /\ m_lastBlock = 0
  /\ m_registers = <<>>
  /\ insBlock = 0
  /\ curBlock = 0
  /\ cur_op = 0
  /\ bi = 0
  /\ nextId = 0
  /\ cerr = <<>>

LoadNames == {"ebpf.load", "ebpf.load32", "ebpf.load16", "ebpf.load8"}
StoreNames == {"ebpf.store", "ebpf.store32", "ebpf.store16", "ebpf.store8"}

\* A value is main's block argument (0) or the result of the operation with
\* that id; NoValue fills an operand slot the operation does not have.
NoValue == -1

\* An operation of main: lhs is the base address (the only operand of an
\* operation that is no load or store), off the constant offset, val the
\* stored value.
ROp(id, name, lhs, off, val) ==
  [id |-> id, name |-> name, lhs |-> lhs, off |-> off, val |-> val]

OpById(ops, id) == ops[CHOOSE i \in DOMAIN ops : ops[i].id = id]
PosOf(ops, id) == CHOOSE i \in DOMAIN ops : ops[i].id = id

Operand(op, slot) == IF slot = "lhs" THEN op.lhs ELSE op.val

\* The uses of value v among the operands of op, in operand order.
UsesIn(op, v) ==
  (IF op.lhs = v THEN <<[owner |-> op.id, slot |-> "lhs"]>> ELSE <<>>) \o
  (IF op.val = v THEN <<[owner |-> op.id, slot |-> "val"]>> ELSE <<>>)

RECURSIVE UsesInOrder(_, _)
UsesInOrder(ops, v) ==
  IF ops = <<>> THEN <<>> ELSE UsesIn(Head(ops), v) \o UsesInOrder(Tail(ops), v)

Reverse(s) == [i \in 1 .. Len(s) |-> s[Len(s) + 1 - i]]

\* The values that can be an operand of the operation after `ops`.
AddressableValues(ops) ==
  {0} \cup { ops[i].id : i \in { j \in DOMAIN ops : ops[j].name \in LoadNames } }

\* The operations that can follow `ops` in a body: a load of any width, a
\* store, or some other user of a value.
OpsAfter(ops) ==
  LET id == Len(ops) + 1
      vals == AddressableValues(ops)
  IN { ROp(id, n, v, 3 + id, NoValue) : n \in LoadNames, v \in vals }
     \cup { ROp(id, n, v, 3 + id, w) : n \in {"ebpf.store", "ebpf.store32"},
                                        v \in vals, w \in vals }
     \cup { ROp(id, "ebpf.add", v, 0, NoValue) : v \in vals }

RECURSIVE Bodies(_)
Bodies(n) ==
  IF n = 0 THEN {<<>>}
  ELSE UNION { { Append(b, op) : op \in OpsAfter(b) } : b \in Bodies(n - 1) }

\* The bodies of at most `most` operations.
ResInputs(most) == UNION { Bodies(n) : n \in 1 .. most }

\* A use list is kept first use first. Operations built in order put each
\* new use at the front of the list; a list that was rebuilt by a rewrite
\* before the pass (inlining) can be in the other order.
UseLists(ops, newestFirst) ==
  [v \in 0 .. Len(ops) |->
     IF newestFirst THEN Reverse(UsesInOrder(ops, v)) ELSE UsesInOrder(ops, v)]

ResInit ==
  /\ LiftIdle
  /\ LiveIdle
  /\ ndebug \in BOOLEAN
  /\ rFuncs = <<"xdp_entry", "main">>
  /\ rOps \in ResInputs(MaxOps)
  /\ \E newestFirst \in BOOLEAN : rUses = UseLists(rOps, newestFirst)
  /\ rPc = "idle"
  /\ rIdx = 0
  /\ rRun = 1
  /\ rNext = Len(rOps)
  /\ rInput = rOps
  /\ rFirst = [ops |-> <<>>, uses |-> <<>>]
  /\ rVisited = {}

\* runOnOperation, lines 105-117: the module must hold xdp_entry and main;
\* the first function is erased and the last one is walked. With one
\* function left, erasing the front leaves back() of an empty list, which is
\* undefined: the walk may crash or find nothing to visit.
resolveBegin ==
  /\ rPc = "idle"
  /\ IF Len(rFuncs) # 2 /\ ~ndebug
     THEN /\ rPc' = "aborted"                              \* assert, line 108
          /\ UNCHANGED <<rFuncs, rOps, rUses, rIdx>>
     ELSE IF Len(rFuncs) >= 2
     THEN /\ rFuncs' = Tail(rFuncs)
          /\ rPc' = "scan"
          /\ rIdx' = 1
          /\ UNCHANGED <<rOps, rUses>>
     ELSE /\ rFuncs' = <<>>
          /\ rOps' = <<>>
          /\ rUses' = <<>>
          /\ rPc' \in {"crashed", "done"}
          /\ UNCHANGED rIdx
  /\ UNCHANGED <<rRun, rNext, rInput, rFirst, rVisited>>
  /\ ResolveOnly

\* replaceLoadWithLoadAddress, lines 31-75: the use's owner is a load or a
\* store whose base address is the load's result.
ExpectAddr(ops, use, res) ==
  LET owner == OpById(ops, use.owner)
  IN owner.name \in LoadNames \cup StoreNames /\ owner.lhs = res

\* replaceLoadWithLoadAddress, lines 29-80: the loop over the uses; ok
\* tells whether the asserts of lines 76 and 79 held for every use.
RECURSIVE ScanUses(_, _, _, _)
ScanUses(ops, uses, res, st) ==
  IF uses = <<>> THEN st
  ELSE LET expectAddr == ExpectAddr(ops, Head(uses), res)
           expectInt == ~expectAddr
           replaceWithMem == expectAddr /\ st.replaceWithMem
           keepAsIs == expectInt \/ st.keepAsIs
           ok76 == (expectAddr /\ ~expectInt) \/ (~expectAddr /\ expectInt)
           ok79 == (replaceWithMem /\ ~expectInt) \/ (~replaceWithMem /\ expectInt)
       IN ScanUses(ops, Tail(uses), res,
                   [replaceWithMem |-> replaceWithMem, keepAsIs |-> keepAsIs,
                    ok |-> st.ok /\ ok76 /\ ok79])

\* The load is rewritten only if it is the 64-bit ebpf.load (lines 84-85).
IsRewritable(op) == op.name = "ebpf.load"

\* replaceLoadWithLoadAddress: "abort" (an assert failed), "failure" (kept as
\* it is), "replace" (success, the load-address variant is built) or
\* "success" (success returned with nothing built).
LoadOutcome(ops, uses, op, nd) ==
  LET sc == ScanUses(ops, uses[op.id], op.id,
                     [replaceWithMem |-> TRUE, keepAsIs |-> FALSE, ok |-> TRUE])
  IN IF ~nd /\ uses[op.id] = <<>> THEN "abort"             \* line 28
     ELSE IF ~nd /\ ~sc.ok THEN "abort"                    \* lines 76, 79
     ELSE IF sc.keepAsIs THEN "failure"                    \* lines 81-83
     ELSE IF ~IsRewritable(op) THEN (IF nd THEN "success" ELSE "abort")
     ELSE "replace"

\* Value::replaceAllUsesWith in the operands
Rewire(op, old, new) ==
  [op EXCEPT !.lhs = IF @ = old THEN new ELSE @,
             !.val = IF @ = old THEN new ELSE @]

InsertAfter(ops, i, op) == SubSeq(ops, 1, i) \o <<op>> \o SubSeq(ops, i + 1, Len(ops))

\* lines 86-95: the load-address operation is built right after the load
\* with the load's operands, and every use of the load goes over to it.
ReplaceLoad(ops, i, new) ==
  LET op == ops[i]
      addr == ROp(new, "ebpf.loadaddr", op.lhs, op.off, NoValue)
  IN InsertAfter([j \in DOMAIN ops |-> Rewire(ops[j], op.id, new)], i, addr)

ReplaceLoadUses(uses, op, new) ==
  LET built == [uses EXCEPT ![op.lhs] = <<[owner |-> new, slot |-> "lhs"]>> \o @]
  IN [v \in (DOMAIN built) \cup {new} |->
        IF v = new THEN Reverse(built[op.id])
        ELSE IF v = op.id THEN <<>>
        ELSE built[v]]

\* runOnOperation, lines 119-130: the walk meets a load
resolveLoad ==
  /\ rPc = "scan"
  /\ rIdx <= Len(rOps)
  /\ rOps[rIdx].name \in LoadNames
  /\ LET op == rOps[rIdx]
         out == LoadOutcome(rOps, rUses, op, ndebug)
     IN /\ rVisited' = rVisited \cup {op.id}
        /\ IF out = "abort"
           THEN /\ rPc' = "aborted"
                /\ UNCHANGED <<rOps, rUses, rIdx, rNext>>
           ELSE IF out = "replace"
           THEN /\ rOps' = ReplaceLoad(rOps, rIdx, rNext + 1)
                /\ rUses' = ReplaceLoadUses(rUses, op, rNext + 1)
                /\ rNext' = rNext + 1
                /\ rIdx' = rIdx + 1
                /\ UNCHANGED rPc
           ELSE /\ rIdx' = rIdx + 1
                /\ UNCHANGED <<rOps, rUses, rNext, rPc>>
  /\ UNCHANGED <<rFuncs, rRun, rInput, rFirst>>
  /\ ResolveOnly

\* runOnOperation, line 131: any other operation
resolveDefault ==
  /\ rPc = "scan"
  /\ rIdx <= Len(rOps)
  /\ rOps[rIdx].name \notin LoadNames
  /\ rIdx' = rIdx + 1
  /\ UNCHANGED <<rFuncs, rOps, rUses, rPc, rRun, rNext, rInput, rFirst, rVisited>>
  /\ ResolveOnly

\* runOnOperation returns
resolveEnd ==
  /\ rPc = "scan"
  /\ rIdx > Len(rOps)
  /\ rPc' = "done"
  /\ rFirst' = IF rRun = 1 THEN [ops |-> rOps, uses |-> rUses] ELSE rFirst
  /\ UNCHANGED <<rFuncs, rOps, rUses, rIdx, rRun, rNext, rInput, rVisited>>
  /\ ResolveOnly

\* The pass is run a second time on the module it returned.
resolveAgain ==
  /\ rPc = "done"
  /\ rRun = 1
  /\ rPc' = "idle"
  /\ rRun' = 2
  /\ UNCHANGED <<rFuncs, rOps, rUses, rIdx, rNext, rInput, rFirst, rVisited>>
  /\ ResolveOnly

NextResolve ==
  \/ resolveBegin
  \/ resolveLoad
  \/ resolveDefault
  \/ resolveEnd
  \/ resolveAgain

SpecResolve == ResInit /\ [][NextResolve]_vars

\* ---------------------------------------------- ResolveMemory pass: claims
\* The uses value v had in the body the first run received.
InputUses(v) == Range(UsesInOrder(rInput, v))

\* The use is the base-address operand of a load or a store.
AddressExpected(u) ==
  u.slot = "lhs" /\ OpById(rInput, u.owner).name \in LoadNames \cup StoreNames

IsInputLoad(i) == rInput[i].name \in LoadNames

\* The walk has aborted inside replaceLoadWithLoadAddress on this load.
AbortedAt(id) == rPc = "aborted" /\ rIdx \in DOMAIN rOps /\ rOps[rIdx].id = id

\* Every use the load had in the input still reads the load.
UsesKept(id) ==
  \A u \in InputUses(id) : Operand(OpById(rOps, u.owner), u.slot) = id

\* The load-address variant of the load stands right after it, carries its
\* operands, and every use the load had now reads the variant.
ReplacedByAddress(id) ==
  LET i == PosOf(rOps, id)
  IN /\ i + 1 \in DOMAIN rOps
     /\ rOps[i + 1].name = "ebpf.loadaddr"
     /\ rOps[i + 1].lhs = rOps[i].lhs
     /\ rOps[i + 1].off = rOps[i].off
     /\ \A u \in InputUses(id) :
          Operand(OpById(rOps, u.owner), u.slot) = rOps[i + 1].id

\* No load-address variant was built for the load.
NotReplaced(id) ==
  LET i == PosOf(rOps, id)
  IN ~(i + 1 \in DOMAIN rOps /\ rOps[i + 1].name = "ebpf.loadaddr")

\* C6: once the pass has met a load of any width that has a use and whose
\* uses are all base addresses of loads and stores, the load is replaced by
\* its address-producing variant with the same operands and every use reads
\* the variant.
C6_AddressLoadsReplaced ==
  rRun = 1 =>
    \A i \in DOMAIN rInput :
      (/\ IsInputLoad(i)
       /\ rInput[i].id \in rVisited
       /\ InputUses(rInput[i].id) # {}
       /\ \A u \in InputUses(rInput[i].id) : AddressExpected(u))
      => ReplacedByAddress(rInput[i].id)

\* C7: once the pass has met a load with a use that is a base address and a
\* use that is not, the pass has not aborted on it, the load is still there
\* with all its uses and no address variant was built for it.
C7_MixedLoadsKept ==
  rRun = 1 =>
    \A i \in DOMAIN rInput :
      (/\ IsInputLoad(i)
       /\ rInput[i].id \in rVisited
       /\ \E u \in InputUses(rInput[i].id) : AddressExpected(u)
       /\ \E u \in InputUses(rInput[i].id) : ~AddressExpected(u))
      => /\ ~AbortedAt(rInput[i].id)
         /\ UsesKept(rInput[i].id)
         /\ NotReplaced(rInput[i].id)

FirstRunRewrote == \E i \in DOMAIN rFirst.ops : rFirst.ops[i].name = "ebpf.loadaddr"

SecondRunOver == rRun = 2 /\ rPc \in {"done", "aborted", "crashed"}

\* The pass's precondition: every load of the input has a use.
InputLoadsUsed ==
  \A i \in DOMAIN rInput : IsInputLoad(i) => InputUses(rInput[i].id) # {}

\* C8: a second run on the module the first run returned ends normally,
\* builds nothing and leaves the module as the first run left it, whenever
\* the first run rewrote a load.
C8_SecondRunIsNoOp ==
  (SecondRunOver /\ FirstRunRewrote /\ InputLoadsUsed) =>
    /\ rPc = "done"
    /\ rFuncs = <<"main">>
    /\ rOps = rFirst.ops
    /\ rUses = rFirst.uses
    /\ rNext = Len(rFirst.ops)

\* ------------------------------------------------------ Btor liveness pass
\* Longest block the pass is run on, its terminator included.
MaxBlockOps == 4

\* An operation of the block. A value is the block's array argument (0) or
\* the result of the operation with that id; operands that are no array
\* (a written value, an index, a condition) are NoValue.
\*   btor.write           <<value, base, index>>
\*   btor.write_in_place  <<value, base, index>>
\*   btor.read            <<base, index>>
\*   btor.ite             <<condition, true_value, false_value>>
\*   btor.eq              <<array, array>>  (any other user of an array)
\*   std.br               the arguments passed on
LOp(id, name, operands) == [id |-> id, name |-> name, operands |-> operands]

\* The uses of value v among the operands of op, in operand order.
RECURSIVE OperandUses(_, _, _)
OperandUses(op, v, k) ==
  IF k > Len(op.operands) THEN <<>>
  ELSE (IF op.operands[k] = v THEN <<[owner |-> op.id, idx |-> k]>> ELSE <<>>)
       \o OperandUses(op, v, k + 1)

RECURSIVE BlockUsesInOrder(_, _)
BlockUsesInOrder(ops, v) ==
  IF ops = <<>> THEN <<>>
  ELSE OperandUses(Head(ops), v, 1) \o BlockUsesInOrder(Tail(ops), v)

ArrayValues(ops) ==
  {0} \cup { ops[i].id :
               i \in { j \in DOMAIN ops : ops[j].name \in {"btor.write", "btor.ite"} } }

\* The operations that can follow `ops` inside a block.
InnerOpsAfter(ops) ==
  LET id == Len(ops) + 1
      vals == ArrayValues(ops)
  IN { LOp(id, "btor.write", <<NoValue, v, NoValue>>) : v \in vals }
     \cup { LOp(id, "btor.read", <<v, NoValue>>) : v \in vals }
     \cup { LOp(id, "btor.ite", <<NoValue, t, f>>) : t \in vals, f \in vals }
     \cup { LOp(id, "btor.eq", <<v, 0>>) : v \in vals }

\* The branches that can end a block (the pass does not tell a branch's
\* arguments apart, so they are listed in one order).
BranchesAfter(ops) ==
  LET id == Len(ops) + 1
      vals == ArrayValues(ops)
  IN { LOp(id, "std.br", <<v>>) : v \in vals }
     \cup UNION { { LOp(id, "std.br", <<v, w>>) : w \in { x \in vals : x >= v } }
                   : v \in vals }

\* lOps is a block of at most `most` operations that begins with `ops`.
RECURSIVE BlockFrom(_, _)
BlockFrom(ops, most) ==
  \/ \E op \in BranchesAfter(ops) : lOps = Append(ops, op)
  \/ /\ most > 1
     /\ \E op \in InnerOpsAfter(ops) : BlockFrom(Append(ops, op), most - 1)

BlockUseLists(ops, newestFirst) ==
  [v \in 0 .. Len(ops) |->
     IF newestFirst THEN Reverse(BlockUsesInOrder(ops, v))
     ELSE BlockUsesInOrder(ops, v)]

LiveInit ==
  /\ LiftIdle
  /\ ResIdle
  /\ ndebug \in BOOLEAN
  /\ BlockFrom(<<>>, MaxBlockOps)
  /\ \E newestFirst \in BOOLEAN : lUses = BlockUseLists(lOps, newestFirst)
  /\ lPc = "idle"
  /\ lIdx = 0
  /\ lNext = Len(lOps)
  /\ lInput = lOps
  /\ lLog = <<>>

\* runOnOperation, lines 90-96: the function's last block is walked
liveBegin ==
  /\ lPc = "idle"
  /\ lPc' = "scan"
  /\ lIdx' = 1
  /\ UNCHANGED <<lOps, lUses, lNext, lInput, lLog>>
  /\ LiveOnly

\* Operation::isBeforeInBlock
IsBeforeInBlock(ops, a, b) == PosOf(ops, a) < PosOf(ops, b)

RemoveAt(ops, i) == SubSeq(ops, 1, i - 1) \o SubSeq(ops, i + 1, Len(ops))

\* A move that leaves the operation where it is.
MoveBefore_Stay(ops, a, b) == ops

\* Operation::moveBefore
MoveBefore(ops, a, b) ==
  LET op == OpById(ops, a)
      rest == RemoveAt(ops, PosOf(ops, a))
  IN InsertAfter(rest, PosOf(rest, b) - 1, op)

\* opsMatch(Value &, name): a block argument matches nothing
ValueOpsMatch(ops, v, name) == v > 0 /\ OpById(ops, v).name = name

\* moveReadOpsBefore: the walk over the users of `array`; a user at or
\* after opPtr that is no read ends it with failure, the reads met before
\* it having been moved.
RECURSIVE moveReadOpsBefore(_, _, _)
moveReadOpsBefore(ops, users, opPtr) ==
  IF users = <<>> THEN [ok |-> TRUE, ops |-> ops]
  ELSE LET curUse == Head(users).owner
       IN IF curUse # opPtr /\ ~IsBeforeInBlock(ops, curUse, opPtr)
          THEN IF OpById(ops, curUse).name # "btor.read"
               THEN [ok |-> FALSE, ops |-> ops]
               ELSE moveReadOpsBefore(MoveBefore(ops, curUse, opPtr), Tail(users), opPtr)
          ELSE moveReadOpsBefore(ops, Tail(users), opPtr)

\* A gate that asks for some use instead of exactly one.
HasOneUse_SomeUse(uses, v) == Len(uses[v]) >= 1

\* Value::hasOneUse
HasOneUse(uses, v) == Len(uses[v]) = 1

\* The result of a step of the liveness test: status is "success",
\* "failure", "abort" (an assert failed); ub tells that line 71 read the
\* user of a value that has none.
Verdict(status, ops, ub) == [status |-> status, ops |-> ops, ub |-> ub]

FromMove(r, ub) == Verdict(IF r.ok THEN "success" ELSE "failure", r.ops, ub)

\* usedInITEPattern
usedInITEPattern(ops, uses, iteOp, nd) ==
  LET res == iteOp.id
      trueValue == iteOp.operands[2]
      falseValue == iteOp.operands[3]
      ub == uses[res] = <<>>
      ok70 == HasOneUse(uses, res)
      ok73 == ~ub /\ OpById(ops, uses[res][1].owner).name = "std.br"
  IN IF ~nd /\ ~(ok70 /\ ok73) THEN Verdict("abort", ops, FALSE)
     ELSE IF ValueOpsMatch(ops, trueValue, "btor.write")
     THEN IF ~nd /\ ~(/\ HasOneUse(uses, trueValue)
                      /\ falseValue = OpById(ops, trueValue).operands[2])
          THEN Verdict("abort", ops, FALSE)
          ELSE FromMove(moveReadOpsBefore(ops, uses[falseValue], res), ub)
     ELSE IF ~nd /\ ~(/\ ValueOpsMatch(ops, falseValue, "btor.write")
                      /\ HasOneUse(uses, falseValue)
                      /\ trueValue = OpById(ops, falseValue).operands[2])
          THEN Verdict("abort", ops, FALSE)
          ELSE FromMove(moveReadOpsBefore(ops, uses[trueValue], res), ub)

\* mlir::btor::resultIsLiveAfter
resultIsLiveAfter(ops, uses, op, nd) ==
  IF ~HasOneUse(uses, op.id) THEN Verdict("failure", ops, FALSE)
  ELSE LET useOp == OpById(ops, uses[op.id][1].owner)
       IN IF useOp.name = "std.br" THEN Verdict("success", ops, FALSE)
          ELSE IF useOp.name = "btor.ite" THEN usedInITEPattern(ops, uses, useOp, nd)
          ELSE Verdict("failure", ops, FALSE)

\* Value::replaceAllUsesWith in the operands
RewireOperands(op, old, new) ==
  [op EXCEPT !.operands = [k \in DOMAIN @ |-> IF @[k] = old THEN new ELSE @[k]]]

\* replaceWithWriteInPlace, lines 24-32: the in-place write is built right
\* after the write with its operands, and every use of the write goes over
\* to it.
ReplaceWrite(ops, id, new) ==
  LET i == PosOf(ops, id)
      inPlace == LOp(new, "btor.write_in_place", ops[i].operands)
  IN InsertAfter([j \in DOMAIN ops |-> RewireOperands(ops[j], id, new)], i, inPlace)

ReplaceWriteUses(uses, op, new) ==
  LET base == op.operands[2]
      built == [uses EXCEPT ![base] = <<[owner |-> new, idx |-> 2]>> \o @]
  IN [v \in (DOMAIN built) \cup {new} |->
        IF v = new THEN Reverse(built[op.id])
        ELSE IF v = op.id THEN <<>>
        ELSE built[v]]

\* What the walk notes of a write it has met: the number of uses the write
\* had, what replaceWithWriteInPlace returned, and the block before and
\* after the call.
Site(op, uses, status, after) ==
  [id |-> op.id, nuses |-> Len(uses[op.id]), status |-> status,
   before |-> lOps, after |-> after]

\* runOnOperation, lines 98-106: the walk meets a write
liveWrite ==
  /\ lPc = "scan"
  /\ lIdx <= Len(lOps)
  /\ lOps[lIdx].name = "btor.write"
  /\ LET op == lOps[lIdx]
         v == resultIsLiveAfter(lOps, lUses, op, ndebug)
     IN \/ /\ v.ub                                   \* line 71 on no user
           /\ lPc' = "crashed"
           /\ lLog' = Append(lLog, Site(op, lUses, "crash", lOps))
           /\ UNCHANGED <<lOps, lUses, lIdx, lNext>>
        \/ /\ v.status = "abort"                     \* lines 70-84
           /\ lPc' = "aborted"
           /\ lLog' = Append(lLog, Site(op, lUses, "abort", lOps))
           /\ UNCHANGED <<lOps, lUses, lIdx, lNext>>
        \/ /\ v.status = "failure"
           /\ lOps' = v.ops
           /\ lLog' = Append(lLog, Site(op, lUses, "failure", v.ops))
           /\ IF ndebug
              THEN lIdx' = lIdx + 1 /\ UNCHANGED lPc
              ELSE lPc' = "aborted" /\ UNCHANGED lIdx    \* assert, line 105
           /\ UNCHANGED <<lUses, lNext>>
        \/ /\ v.status = "success"
           /\ lOps' = ReplaceWrite(v.ops, op.id, lNext + 1)
           /\ lUses' = ReplaceWriteUses(lUses, op, lNext + 1)
           /\ lNext' = lNext + 1
           /\ lIdx' = lIdx + 1
           /\ lLog' = Append(lLog, Site(op, lUses, "success",
                                        ReplaceWrite(v.ops, op.id, lNext + 1)))
           /\ UNCHANGED lPc
  /\ UNCHANGED lInput
  /\ LiveOnly

\* runOnOperation, line 104: any other operation
liveDefault ==
  /\ lPc = "scan"
  /\ lIdx <= Len(lOps)
  /\ lOps[lIdx].name # "btor.write"
  /\ lIdx' = lIdx + 1
  /\ UNCHANGED <<lOps, lUses, lPc, lNext, lInput, lLog>>
  /\ LiveOnly

\* runOnOperation returns
liveEnd ==
  /\ lPc = "scan"
  /\ lIdx > Len(lOps)
  /\ lPc' = "done"
  /\ UNCHANGED <<lOps, lUses, lIdx, lNext, lInput, lLog>>
  /\ LiveOnly

NextLive ==
  \/ liveBegin
  \/ liveWrite
  \/ liveDefault
  \/ liveEnd

SpecLive == LiveInit /\ [][NextLive]_vars

\* --------------------------------------------- claims on the liveness pass
\* The writes of the block the pass was given (an operation's id is its
\* position in that block).
InputWrites == { i \in DOMAIN lInput : lInput[i].name = "btor.write" }

InputWriteUses(id) == BlockUsesInOrder(lInput, id)

\* The in-place writes built for write id: they sit right after it.
InPlaceOf(id) ==
  { j \in DOMAIN lOps : /\ j > 1
                        /\ lOps[j].name = "btor.write_in_place"
                        /\ lOps[j - 1].id = id }

\* Write id is in the block as it was given, and every operand that read
\* its result still does.
WriteKept(id) ==
  /\ \E j \in DOMAIN lOps : lOps[j] = lInput[id]
  /\ \A k \in DOMAIN InputWriteUses(id) :
       LET u == InputWriteUses(id)[k]
       IN OpById(lOps, u.owner).operands[u.idx] = id

\* C9: a write whose result has no use, or two uses or more, is never
\* replaced by an in-place write, whatever operations use it: a write of
\* the given block that has an in-place write built for it had exactly one
\* use.
C9_MultiUseWritesKept ==
  \A i \in InputWrites :
       InPlaceOf(i) = {}
    \/ Len(InputWriteUses(i)) = 1

\* A finished walk that met a write with two uses or more and declined it,
\* and converted another write of the same block.
C9_Witness ==
  /\ lPc = "done"
  /\ \E i \in InputWrites :
       /\ Len(InputWriteUses(i)) >= 2
       /\ \E k \in DOMAIN lLog : lLog[k].id = i /\ lLog[k].status = "failure"
  /\ \E i \in InputWrites : InPlaceOf(i) # {}

\* C10: when the liveness test fails for a write, the pass does not abort:
\* the write is left untouched, the outcome is a decline of that site, and
\* the walk goes on with the remaining operations of the block.
C10_DeclineDoesNotAbort ==
  \A k \in DOMAIN lLog :
    lLog[k].status # "success" =>
      /\ lLog[k].status = "failure"
      /\ lPc \notin {"aborted", "crashed"}
      /\ InPlaceOf(lLog[k].id) = {}
      /\ WriteKept(lLog[k].id)

\* The base array of a write of the given block.
BaseOf(id) == lInput[id].operands[2]

UseCount(ops, v) == Len(BlockUsesInOrder(ops, v))

\* Select sel of block `ops` is the idiom usedInITEPattern describes (what
\* its asserts state): its result has one use, by a branch; one branch is
\* a write that has one use, the other the array that write writes to.
IsSelectIdiom(ops, sel) ==
  LET t == sel.operands[2]
      f == sel.operands[3]
  IN /\ UseCount(ops, sel.id) = 1
     /\ OpById(ops, BlockUsesInOrder(ops, sel.id)[1].owner).name = "std.br"
     /\ IF ValueOpsMatch(ops, t, "btor.write")
        THEN UseCount(ops, t) = 1 /\ f = OpById(ops, t).operands[2]
        ELSE /\ ValueOpsMatch(ops, f, "btor.write")
             /\ UseCount(ops, f) = 1
             /\ t = OpById(ops, f).operands[2]

\* The selects of block `ops` that are the idiom for write id.
IdiomSelects(ops, id) ==
  { ops[j].id : j \in { i \in DOMAIN ops :
       /\ ops[i].name = "btor.ite"
       /\ id \in {ops[i].operands[2], ops[i].operands[3]}
       /\ IsSelectIdiom(ops, ops[i]) } }

\* The reads of array a that the given block holds after operation s.
InputReadsAfter(a, s) ==
  { r \in DOMAIN lInput : /\ r > s
                          /\ lInput[r].name = "btor.read"
                          /\ lInput[r].operands[1] = a }

UsesArray(op, a) == \E k \in DOMAIN op.operands : op.operands[k] = a

\* Every read of `a` of the given block that was after select s is before
\* it now, and from the first of them up to the select only reads use a.
ReadsPrecede(a, s) ==
  LET moved == InputReadsAfter(a, s)
      at == PosOf(lOps, s)
  IN /\ \A r \in moved : PosOf(lOps, r) < at
     /\ \A r \in moved :
          \A p \in PosOf(lOps, r) .. at - 1 :
            UsesArray(lOps[p], a) => lOps[p].name = "btor.read"

LoadsDiscarded ==
  \A j \in DOMAIN rOps :
    (j > 1 /\ rOps[j].name = "ebpf.loadaddr") =>
      ~(/\ rOps[j - 1].name \in LoadNames
        /\ rOps[j - 1].lhs = rOps[j].lhs
        /\ rOps[j - 1].off = rOps[j].off)

\* No write that was converted is in the block any more.
WritesDiscarded ==
  \A k \in DOMAIN lLog :
    lLog[k].status = "success" =>
      \A j \in DOMAIN lOps : lOps[j].id # lLog[k].id

\* C12: after a rewrite by either pass (a load replaced by its address
\* variant, a write replaced by an in-place write) the original operation
\* is no longer in its block; only the replacement remains.
C12_OriginalDiscarded == LoadsDiscarded /\ WritesDiscarded

\* C13: the rewrite of one write is all or nothing: when the select-idiom
\* check fails because an operation other than a read uses the base array
\* at or after the select, the block is exactly as it was before the
\* attempt: no read was moved and the write is not converted.
C13_FailedAttemptLeavesBlock ==
  \A k \in DOMAIN lLog :
    (/\ lLog[k].status = "failure"
     /\ IdiomSelects(lLog[k].before, lLog[k].id) # {})
    => /\ lLog[k].after = lLog[k].before
       /\ InPlaceOf(lLog[k].id) = {}

\* ------------------------------------------- fallthrough branch of lifter
\* Instruction ins assigns register i (createUnaryOp line 69, createBinaryOp
\* line 152, createMemOp line 190 for a load, createLoadMapOp line 199).
WritesReg(ins, i) ==
  \/ ins.kind \in {"Bin", "Un", "LoadMapFd"} /\ ins.dst = i
  \/ ins.kind = "Mem" /\ ins.is_load /\ ins.dst = i

\* The offset at which the range being translated began.
RangeStart == IF bi = 1 THEN 0 ELSE m_startOfNextBlock[bi - 1]

MaxOf(S) == CHOOSE x \in S : \A y \in S : y <= x

\* The result of the last operation of `body` built for the instruction at
\* offset at.
ResultFor(body, at) ==
  OpResult(body[MaxOf({ k \in DOMAIN body : body[k].ins = at })].id)

\* The value register i holds after the instructions of [from, to) are
\* translated into block b, every register starting as b's parameter.
RegisterAfter(b, body, from, to, i) ==
  LET writers == { j \in from .. (to - 1) : WritesReg(prog[j + 1], i) }
  IN IF writers = {} THEN BlockArg(b, i)
     ELSE ResultFor(body, MaxOf(writers))

\* The loop of buildFunctionBody closes a range whose block does not end
\* with a terminator.
ClosesOpenRange ==
  /\ pc = "range"
  /\ pc' = "loop"
  /\ blocks[curBlock] = <<>> \/ ~IsTerminator(blocks[curBlock][Len(blocks[curBlock])])

\* C14: when a range [cur, next) has been translated and its block has no
\* terminator, the lifter appends one unconditional branch to the block
\* that owns offset next; for every register i its i-th argument is the
\* value the register holds after the instructions of the range, starting
\* from the block's own parameters, and a register the range does not
\* write is passed as the block's own i-th parameter.
C14_FallthroughPassesRegisters ==
  [][ClosesOpenRange =>
       LET next == m_startOfNextBlock[bi]
           body == blocks[curBlock]
           br == blocks'[curBlock][Len(body) + 1]
       IN /\ \A b \in DOMAIN blocks : b # curBlock => blocks'[b] = blocks[b]
          /\ Len(blocks'[curBlock]) = Len(body) + 1
          /\ SubSeq(blocks'[curBlock], 1, Len(body)) = body
          /\ br.name = "std.br"
          /\ br.dest = m_jumpBlocks[next]
          /\ Len(br.operands) = m_ebpfRegisters
          /\ \A i \in Regs :
               br.operands[i + 1] = RegisterAfter(curBlock, body, RangeStart, next, i)]_vars

\* A block closed by a branch the lifter added that passes on both a value
\* computed in the block and one of the block's own parameters.
C14_Witness ==
  \E b \in DOMAIN blocks :
    \E k \in DOMAIN blocks[b] :
      LET br == blocks[b][k]
      IN /\ br.name = "std.br"
         /\ br.ins = -1
         /\ \E i \in DOMAIN br.operands : br.operands[i].def = "res"
         /\ \E i \in Regs : br.operands[i + 1] = BlockArg(b, i)
====
